---- MODULE Spec2Model ----
(***************************************************************************)
(* A model of classifier.py: the title classifier classify_paper (regular  *)
(* expression table, negative context, weak tags), the "Check              *)
(* Availability" / "Fetch & Analyze" handlers over st.session_state, and   *)
(* the cursor pagination loop of fetch_papers_from_sources.                *)
(***************************************************************************)
EXTENDS Integers, Sequences, FiniteSets, TLC

VARIABLES
    title,                 \* classify_paper: the argument
    pc,                    \* classify_paper: "call" | "return"
    has_medical_context,   \* classify_paper: local, truthiness of the re.search result
    matches,               \* classify_paper: local, the collected tags
    result,                \* classify_paper: the returned tuple
    order,                 \* the order in which the rule table was walked
    result_reordered,      \* the tuple returned with the table walked in `order`
    source_ids,            \* st.session_state.source_ids
    journal_names,         \* st.session_state.journal_names
    total_count,           \* st.session_state.total_count
    run_btn,               \* what the last "Fetch & Analyze" click fetched
    max_limit,             \* fetch_papers_from_sources: the argument
    all_papers,            \* fetch_papers_from_sources: local
    cursor,                \* fetch_papers_from_sources: params['cursor']
    fpc,                   \* fetch_papers_from_sources: "while" | "done"
    requests_made,         \* number of requests.get calls of this invocation
    pages,                 \* the results of the pages extended so far, concatenated
    returned               \* the list fetch_papers_from_sources returned

vars == <<title, pc, has_medical_context, matches, result, order, result_reordered,
          source_ids, journal_names, total_count, run_btn,
          max_limit, all_papers, cursor, fpc, requests_made, pages, returned>>

classifyVars == <<title, pc, has_medical_context, matches, result, order, result_reordered>>
uiVars == <<source_ids, journal_names, total_count, run_btn>>
fetchVars == <<max_limit, all_papers, cursor, fpc, requests_made, pages, returned>>

None == "None"

(***************************************************************************)
(* Characters.  A title is a string; its i-th character is SubSeq(s,i,i).  *)
(***************************************************************************)
LowerLetters == "abcdefghijklmnopqrstuvwxyz"
UpperLetters == "ABCDEFGHIJKLMNOPQRSTUVWXYZ"

CharsOf(s) == {SubSeq(s, i, i) : i \in 1..Len(s)}

\* \w of a str pattern: letters, digits and the underscore
WordChars ==
    {"a", "b", "c", "d", "e", "f", "g", "h", "i", "j", "k", "l", "m",
     "n", "o", "p", "q", "r", "s", "t", "u", "v", "w", "x", "y", "z",
     "A", "B", "C", "D", "E", "F", "G", "H", "I", "J", "K", "L", "M",
     "N", "O", "P", "Q", "R", "S", "T", "U", "V", "W", "X", "Y", "Z",
     "0", "1", "2", "3", "4", "5", "6", "7", "8", "9", "_"}

\* \s
SpaceChars == {" "}

\* [\w-]
WordOrHyphenChars == WordChars \cup {"-"}

InClass(c, cls) ==
    CASE cls = "w"  -> c \in WordChars
      [] cls = "w-" -> c \in WordOrHyphenChars
      [] cls = "s"  -> c \in SpaceChars

LowerChar == [c \in CharsOf(UpperLetters) |->
                LET i == CHOOSE j \in 1..Len(UpperLetters) : SubSeq(UpperLetters, j, j) = c
                IN  SubSeq(LowerLetters, i, i)]

\* str.lower(): upper-case letters are mapped, every other character is kept
RECURSIVE lower(_)
lower(s) ==
    IF s = "" THEN ""
    ELSE IF Len(s) = 1 THEN (IF s \in DOMAIN LowerChar THEN LowerChar[s] ELSE s)
    ELSE LET h == Len(s) \div 2
         IN  lower(SubSeq(s, 1, h)) \o lower(SubSeq(s, h + 1, Len(s)))

(***************************************************************************)
(* Regular expressions.  A pattern is a sequence of elements:              *)
(*   B          \b                                                         *)
(*   Lit(s)     the literal s                                              *)
(*   Alt(a)     (x|y|...) for the set a of literals                        *)
(*   Opt(s)     s?                                                         *)
(*   Star(cls)  cls*          Plus(cls)  cls+                              *)
(* re_search holds iff the pattern matches at some position of the string: *)
(* the set of positions where a match of the first i elements can end is   *)
(* computed for all start positions at once.                               *)
(***************************************************************************)
B == [k |-> "b", a |-> {}, cls |-> "", min |-> 0]
Alt(a) == [k |-> "alt", a |-> a, cls |-> "", min |-> 0]
Lit(s) == Alt({s})
Opt(s) == Alt({"", s})
Star(cls) == [k |-> "rep", a |-> {}, cls |-> cls, min |-> 0]
Plus(cls) == [k |-> "rep", a |-> {}, cls |-> cls, min |-> 1]

\* which positions of s hold a word character (0 and n+1 stand for the outside of s)
WordFlags(s) ==
    [i \in 0..(Len(s) + 1) |-> i >= 1 /\ i <= Len(s) /\ SubSeq(s, i, i) \in WordChars]

\* A string prepared for matching: its length n, the positions where \b holds, and for
\* each position q the least p such that the characters p+1..q all are word characters.
SubjectOf(s, w) ==
    [str |-> s,
     n |-> Len(s),
     b |-> {p \in 0..Len(s) : w[p] # w[p + 1]},
     run |-> [q \in 0..Len(s) |->
                q - (CHOOSE k \in 0..q : /\ k = q \/ ~w[q - k]
                                         /\ \A j \in 0..(k - 1) : w[q - j])]]

Subject(s) == SubjectOf(s, WordFlags(s))

re_search(pattern, subj) ==
    LET s == subj.str
        n == subj.n
        StepAlt(P, a) ==
            {pr[1] + Len(pr[2]) :
                pr \in {q \in P \X a : /\ q[1] + Len(q[2]) <= n
                                       /\ SubSeq(s, q[1] + 1, q[1] + Len(q[2])) = q[2]}}
        \* the least p such that the characters p+1..q all are of cls
        RunStart(cls, q) ==
            IF cls = "w" THEN subj.run[q]
            ELSE q - (CHOOSE k \in 0..q :
                        /\ k = q \/ ~InClass(SubSeq(s, q - k, q - k), cls)
                        /\ \A j \in 0..(k - 1) : InClass(SubSeq(s, q - j, q - j), cls))
        \* q is reached from some p of P over at least min characters of cls
        StepRep(P, cls, min) ==
            {q \in 0..n : \E p \in RunStart(cls, q)..(q - min) : p \in P}
        Step(e, P) ==
            CASE e.k = "b"   -> P \cap subj.b
              [] e.k = "alt" -> StepAlt(P, e.a)
              [] e.k = "rep" -> StepRep(P, e.cls, e.min)
        RECURSIVE Ends(_, _)
        Ends(i, P) ==
            IF P = {} \/ i > Len(pattern) THEN P
            ELSE Ends(i + 1, Step(pattern[i], P))
    IN  Ends(1, 0..n) # {}

medical_context_pattern ==
    <<B, Alt({"stem cell", "bone marrow", "hematopoietic", "fecal", "fmt", "microbiota",
              "mitochondria", "corneal", "renal replacement"}), B>>

Rule(p, t) == [pattern |-> p, tag |-> t]

surgical_patterns == <<
    Rule(<<B, Lit("surg"), Alt({"eries", "ery", "ical", "eon", "eons"}), B>>, "Surgery (General)"),
    Rule(<<B, Lit("operat"), Alt({"ion", "ions", "ive"}), B>>, "Operative"),
    Rule(<<B, Lit("xeno"), Star("w-"), Lit("transplant"), Star("w")>>, "Xenotransplant"),
    Rule(<<B, Lit("allo"), Star("w-"), Lit("transplant"), Star("w")>>, "Allotransplant"),
    Rule(<<B, Lit("orthotopic"), B>>, "Orthotopic Tx"),
    Rule(<<Star("w"), Lit("transplant"), Star("w")>>, "Transplant (Generic)"),
    Rule(<<Plus("w"), Lit("ectom"), Alt({"y", "ies"}), B>>, "Excision (-ectomy)"),
    Rule(<<Plus("w"), Lit("otom"), Alt({"y", "ies"}), B>>, "Incision (-otomy)"),
    Rule(<<Plus("w"), Lit("ostom"), Alt({"y", "ies"}), B>>, "Stoma (-ostomy)"),
    Rule(<<Plus("w"), Lit("plast"), Alt({"y", "ies"}), B>>, "Repair (-plasty)"),
    Rule(<<Plus("w"), Lit("pex"), Alt({"y", "ies"}), B>>, "Fixation (-pexy)"),
    Rule(<<Plus("w"), Lit("rraph"), Alt({"y", "ies"}), B>>, "Suture (-rraphy)"),
    Rule(<<Plus("w"), Lit("desis"), B>>, "Fusion"),
    Rule(<<B, Lit("resection"), B>>, "Resection"),
    Rule(<<B, Lit("excision"), B>>, "Excision"),
    Rule(<<B, Lit("ablation"), B>>, "Ablation"),
    Rule(<<B, Lit("debridement"), B>>, "Debridement"),
    Rule(<<B, Lit("amputat"), Star("w")>>, "Amputation"),
    Rule(<<B, Lit("revascularization"), B>>, "Revascularization"),
    Rule(<<B, Lit("anastomos"), Alt({"is", "es"}), B>>, "Anastomosis"),
    Rule(<<B, Lit("cautery"), B>>, "Cautery"),
    Rule(<<B, Lit("ligat"), Alt({"ion", "ure"}), B>>, "Ligation"),
    Rule(<<B, Lit("incis"), Alt({"ion", "ional"}), B>>, "Incision"),
    Rule(<<B, Lit("enucleation"), B>>, "Enucleation"),
    Rule(<<B, Lit("decortication"), B>>, "Decortication"),
    Rule(<<B, Lit("exenteration"), B>>, "Exenteration"),
    Rule(<<B, Lit("fulguration"), B>>, "Fulguration"),
    Rule(<<B, Lit("marsupialization"), B>>, "Marsupialization"),
    Rule(<<B, Alt({"hernia", "valve", "aneurysm", "fracture", "tendon", "cleft", "mitral",
                   "aortic"}), Plus("s"), Lit("repair"), B>>, "Specific Repair"),
    Rule(<<B, Lit("laparoscop"), Star("w")>>, "Laparoscopic"),
    Rule(<<B, Lit("robotic"), B>>, "Robotic"),
    Rule(<<B, Lit("endovascular"), B>>, "Endovascular"),
    Rule(<<B, Lit("percutaneous"), B>>, "Percutaneous"),
    Rule(<<B, Lit("thoracoscop"), Star("w")>>, "Thoracoscopic"),
    Rule(<<B, Lit("transcatheter"), B>>, "Transcatheter"),
    Rule(<<B, Lit("microsurg"), Star("w")>>, "Microsurgery"),
    Rule(<<B, Lit("transanal"), B>>, "Transanal"),
    Rule(<<B, Lit("sternotomy"), B>>, "Sternotomy"),
    Rule(<<B, Lit("craniotomy"), B>>, "Craniotomy"),
    Rule(<<B, Lit("thoracotomy"), B>>, "Thoracotomy"),
    Rule(<<B, Lit("laparotomy"), B>>, "Laparotomy"),
    Rule(<<B, Lit("arthroscop"), Star("w")>>, "Arthroscopy"),
    Rule(<<B, Lit("allograft"), B>>, "Allograft"),
    Rule(<<B, Lit("xenograft"), B>>, "Xenograft"),
    Rule(<<B, Lit("autograft"), B>>, "Autograft"),
    Rule(<<B, Lit("prosthes"), Alt({"is", "es"}), B>>, "Prosthesis"),
    Rule(<<B, Lit("flap"), B>>, "Flap"),
    Rule(<<B, Lit("donor"), B>>, "Donor"),
    Rule(<<B, Lit("recipient"), B>>, "Recipient"),
    Rule(<<B, Lit("whipple"), B>>, "Whipple"),
    Rule(<<B, Lit("roux-en-y"), B>>, "Roux-en-Y"),
    Rule(<<B, Lit("hartmann"), Opt("'"), Opt("s"), B>>, "Hartmann's"),
    Rule(<<B, Lit("nissen"), B>>, "Nissen"),
    Rule(<<B, Lit("fundoplication"), B>>, "Fundoplication"),
    Rule(<<B, Lit("tevar"), B>>, "TEVAR"),
    Rule(<<B, Lit("evar"), B>>, "EVAR"),
    Rule(<<B, Lit("cabg"), B>>, "CABG"),
    Rule(<<B, Lit("poucho"), B>>, "Pouch"),
    Rule(<<B, Lit("metastasectomy"), B>>, "Metastasectomy"),
    Rule(<<B, Lit("lymphadenectomy"), B>>, "Lymphadenectomy")
>>

weak_tags == {"Transplant (Generic)", "Donor", "Recipient"}

(***************************************************************************)
(* classify_paper, with the rule table as a parameter: the program calls   *)
(* it with surgical_patterns.                                              *)
(***************************************************************************)
\* a test for None in place of the test for str
is_not_none(v) == v.type # "NoneType"

\* line 14
isinstance_str(v) == v.type = "str"

\* collect_matches, prepending each tag instead of appending it
collect_matches_prepending(table, subj) ==
    LET hit == SelectSeq(table, LAMBDA r : re_search(r.pattern, subj))
    IN  [i \in 1..Len(hit) |-> hit[Len(hit) + 1 - i].tag]

\* lines 87-90: the tags of the rules that match, in table order
collect_matches(table, subj) ==
    LET hit == SelectSeq(table, LAMBDA r : re_search(r.pattern, subj))
    IN  [i \in 1..Len(hit) |-> hit[i].tag]

strong_of(ms) == SelectSeq(ms, LAMBDA m : m \notin weak_tags)

\* decide, scoring an excluded title 1
decide_excluded_scored(ms, ctx) ==
    IF ms = <<>> THEN <<"Non-Surgical", 0, "No keywords">>
    ELSE IF ctx
         THEN IF strong_of(ms) = <<>>
              THEN <<"Non-Surgical", 1, "Excluded: Medical Context (" \o ms[1] \o ")">>
              ELSE <<"Surgical", 1, strong_of(ms)[1] \o " (despite medical context)">>
         ELSE <<"Surgical", 1, ms[1]>>

\* decide, citing the last collected tag of an excluded title
decide_cites_last(ms, ctx) ==
    IF ms = <<>> THEN <<"Non-Surgical", 0, "No keywords">>
    ELSE IF ctx
         THEN IF strong_of(ms) = <<>>
              THEN <<"Non-Surgical", 0, "Excluded: Medical Context (" \o ms[Len(ms)] \o ")">>
              ELSE <<"Surgical", 1, strong_of(ms)[1] \o " (despite medical context)">>
         ELSE <<"Surgical", 1, ms[1]>>

\* decide, citing the first collected tag, weak or not, of an overriding title
decide_override_cites_first(ms, ctx) ==
    IF ms = <<>> THEN <<"Non-Surgical", 0, "No keywords">>
    ELSE IF ctx
         THEN IF strong_of(ms) = <<>>
              THEN <<"Non-Surgical", 0, "Excluded: Medical Context (" \o ms[1] \o ")">>
              ELSE <<"Surgical", 1, ms[1] \o " (despite medical context)">>
         ELSE <<"Surgical", 1, ms[1]>>

\* decide, testing the context before the empty list of tags
decide_context_alone(ms, ctx) ==
    IF ctx /\ strong_of(ms) = <<>>
    THEN <<"Non-Surgical", 0,
           "Excluded: Medical Context (" \o (IF ms = <<>> THEN "" ELSE ms[1]) \o ")">>
    ELSE IF ms = <<>> THEN <<"Non-Surgical", 0, "No keywords">>
    ELSE IF ctx
         THEN <<"Surgical", 1, strong_of(ms)[1] \o " (despite medical context)">>
         ELSE <<"Surgical", 1, ms[1]>>

\* decide, judging the context by the first collected tag alone
decide_by_first_tag(ms, ctx) ==
    IF ms = <<>> THEN <<"Non-Surgical", 0, "No keywords">>
    ELSE IF ctx
         THEN IF ms[1] \in weak_tags
              THEN <<"Non-Surgical", 0, "Excluded: Medical Context (" \o ms[1] \o ")">>
              ELSE <<"Surgical", 1, ms[1] \o " (despite medical context)">>
         ELSE <<"Surgical", 1, ms[1]>>

\* lines 92-104: the returned tuple, from the collected tags and the context
decide(ms, ctx) ==
    IF ms = <<>> THEN <<"Non-Surgical", 0, "No keywords">>
    ELSE IF ctx
         THEN IF strong_of(ms) = <<>>
              THEN <<"Non-Surgical", 0, "Excluded: Medical Context (" \o ms[1] \o ")">>
              ELSE <<"Surgical", 1, strong_of(ms)[1] \o " (despite medical context)">>
         ELSE <<"Surgical", 1, ms[1]>>

\* the locals and the returned tuple of one call on a string
locals_of(ctx, ms) == [has_medical_context |-> ctx, matches |-> ms, result |-> decide(ms, ctx)]

classify_str(table, subj) ==
    locals_of(re_search(medical_context_pattern, subj), collect_matches(table, subj))

classify_with(table, v) ==
    IF ~isinstance_str(v)
    THEN [has_medical_context |-> None, matches |-> None,
          result |-> <<"Non-Surgical", 0, "No Title">>]
    ELSE classify_str(table, Subject(lower(v.value)))

classify_paper(v) == classify_with(surgical_patterns, v)

(***************************************************************************)
(* Inputs of classify_paper: strings built from a few fragments joined by  *)
(* a space, a hyphen or nothing, the empty string, and non-string values   *)
(* (a missing title is None, or NaN in a data frame).                      *)
(***************************************************************************)
MaxWords == 2

Fragments == {"fecal", "stem cell transplantation", "transplantation", "donor",
              "Resection", "pouch", "hernia repair", "xeno", "GASTRECTOMY"}

Separators == {" ", "-", ""}

RECURSIVE TitlesOf(_)
TitlesOf(n) ==
    IF n = 0 THEN {""}
    ELSE IF n = 1 THEN Fragments
    ELSE {t[1] \o t[2] \o t[3] : t \in TitlesOf(n - 1) \X Separators \X Fragments}

Str(s) == [type |-> "str", value |-> s]

StringInputs == {Str(s) : s \in UNION {TitlesOf(n) : n \in 0..MaxWords}}

NonStringInputs == {[type |-> "NoneType", value |-> "None"],
                    [type |-> "float", value |-> "nan"],
                    [type |-> "int", value |-> "0"],
                    [type |-> "list", value |-> "[]"]}

Inputs == StringInputs \cup NonStringInputs

(***************************************************************************)
(* The classifier as a state machine: an input is drawn, the call returns. *)
(***************************************************************************)
IdentityOrder == [i \in 1..Len(surgical_patterns) |-> i]

ClassifyInit ==
    /\ title \in Inputs
    /\ pc = "call"
    /\ has_medical_context = None
    /\ matches = None
    /\ result = None
    /\ order = IdentityOrder
    /\ result_reordered = None

NotClicked == [clicked |-> FALSE, journal_names |-> <<>>, source_ids |-> <<>>]

\* lines 239-244: the session state of a new session
UiIdle ==
    /\ source_ids = <<>>
    /\ journal_names = <<>>
    /\ total_count = 0
    /\ run_btn = NotClicked

FetchIdle ==
    /\ max_limit = 0
    /\ all_papers = <<>>
    /\ cursor = "*"
    /\ fpc = "idle"
    /\ requests_made = 0
    /\ pages = <<>>
    /\ returned = <<>>

Return(r) ==
    /\ has_medical_context' = r.has_medical_context
    /\ matches' = r.matches
    /\ result' = r.result
    /\ pc' = "return"

ClassifyPaper ==
    /\ pc = "call"
    /\ Return(classify_paper(title))
    /\ UNCHANGED <<title, order, result_reordered>>
    /\ UNCHANGED uiVars
    /\ UNCHANGED fetchVars

Init == ClassifyInit /\ UiIdle /\ FetchIdle

Next == ClassifyPaper

Spec == Init /\ [][Next]_vars

(***************************************************************************)
(* The same call with the rules of the table standing in another order.    *)
(***************************************************************************)
NRules == Len(surgical_patterns)

Reversed == [i \in 1..NRules |-> NRules + 1 - i]

MoveToFront(r) == [i \in 1..NRules |-> IF i = 1 THEN r ELSE IF i <= r THEN i - 1 ELSE i]

\* the table with rule o[k] of surgical_patterns standing at place k
Permuted(o) == [k \in 1..NRules |-> surgical_patterns[o[k]]]

TagsIn(ms) == {ms[i] : i \in 1..Len(ms)}

RuleOf(tag) == CHOOSE i \in 1..NRules : surgical_patterns[i].tag = tag

\* The orders tried: the table reversed, and each matching rule moved to the front (a
\* rule that does not match collects nothing wherever it stands).
Orders ==
    {Reversed} \cup (IF isinstance_str(title)
                     THEN {MoveToFront(RuleOf(t)) : t \in TagsIn(matches)}
                     ELSE {})

ClassifyReordered ==
    /\ pc = "return"
    /\ \E o \in Orders :
          /\ order' = o
          /\ result_reordered' = classify_with(Permuted(o), title).result
    /\ pc' = "reordered"
    /\ UNCHANGED <<title, has_medical_context, matches, result>>
    /\ UNCHANGED uiVars
    /\ UNCHANGED fetchVars

NextReorder == ClassifyPaper \/ ClassifyReordered

SpecReorder == Init /\ [][NextReorder]_vars

(***************************************************************************)
(* Properties of classify_paper.                                           *)
(***************************************************************************)
Returned == pc = "return"

StringCall == Returned /\ isinstance_str(title)

NoTitle == <<"Non-Surgical", 0, "No Title">>

NoKeywords == <<"Non-Surgical", 0, "No keywords">>

Min(S) == CHOOSE x \in S : \A y \in S : x <= y

\* the lowest-numbered rule of the table whose pattern matches the lower-cased title, or 0
FirstHit(subj) ==
    IF \E i \in 1..NRules : re_search(surgical_patterns[i].pattern, subj)
    THEN CHOOSE i \in 1..NRules :
            /\ re_search(surgical_patterns[i].pattern, subj)
            /\ \A j \in 1..(i - 1) : ~re_search(surgical_patterns[j].pattern, subj)
    ELSE 0

FirstMatchingRule(v) == FirstHit(Subject(lower(v.value)))

\* the tag, among tags, of the rule that stands first in the table
FirstInTable(tags) == surgical_patterns[Min({RuleOf(t) : t \in tags})].tag

\* C1: whatever the input, Score is 1 exactly when Classification is "Surgical" and 0
\* exactly when it is "Non-Surgical", and Reason is not the empty string.
C1_ScoreIffSurgical ==
    Returned =>
        /\ result[1] \in {"Surgical", "Non-Surgical"}
        /\ result[2] \in {0, 1}
        /\ (result[2] = 1) <=> (result[1] = "Surgical")
        /\ (result[2] = 0) <=> (result[1] = "Non-Surgical")
        /\ result[3] # ""

C1_Witness ==
    /\ Returned
    /\ isinstance_str(title)
    /\ result[1] = "Surgical"
    /\ result[2] = 1
    /\ has_medical_context

\* C2 as stated: a non-string input, an empty title and a missing title all give
\* ("Non-Surgical", 0, "No Title").
C2_EmptyOrMissingIsNoTitle ==
    (Returned /\ (title.type # "str" \/ title = Str(""))) => result = NoTitle

\* C2: every non-string input (None, the missing title, included) gives
\* ("Non-Surgical", 0, "No Title"); the empty title is a string and gives
\* ("Non-Surgical", 0, "No keywords"); every call returns a well-formed tuple.
C2_NonStringIsNoTitle ==
    /\ (Returned /\ title.type # "str") => result = NoTitle
    /\ (Returned /\ title = Str("")) => result = NoKeywords
    /\ Returned => result \in {"Surgical", "Non-Surgical"} \X {0, 1} \X STRING

C2_Witness ==
    /\ Returned
    /\ title.type = "NoneType"
    /\ result = NoTitle

\* C3: when the negative-context pattern matches, some rule matches and every collected
\* tag is weak, the result is ("Non-Surgical", 0, "Excluded: Medical Context (T)") with T
\* the collected tag whose rule stands first in the table.
C3_WeakSuppression ==
    (/\ StringCall
     /\ has_medical_context
     /\ matches # <<>>
     /\ TagsIn(matches) \subseteq weak_tags)
    => result = <<"Non-Surgical", 0,
                  "Excluded: Medical Context (" \o FirstInTable(TagsIn(matches)) \o ")">>

C3_Witness ==
    /\ StringCall
    /\ has_medical_context
    /\ matches = <<"Transplant (Generic)", "Donor">>
    /\ result = <<"Non-Surgical", 0, "Excluded: Medical Context (Transplant (Generic))">>

\* C4: when the negative-context pattern matches and some collected tag is not weak, the
\* result is ("Surgical", 1, "S (despite medical context)") with S the non-weak collected
\* tag whose rule stands first in the table, also when a weak tag was collected before S.
C4_StrongOverride ==
    (/\ StringCall
     /\ has_medical_context
     /\ TagsIn(matches) \ weak_tags # {})
    => result = <<"Surgical", 1,
                  FirstInTable(TagsIn(matches) \ weak_tags) \o " (despite medical context)">>

C4_Witness ==
    /\ StringCall
    /\ has_medical_context
    /\ matches = <<"Transplant (Generic)", "Resection">>
    /\ result = <<"Surgical", 1, "Resection (despite medical context)">>

\* C5: when the negative-context pattern does not match and some rule matches, the result
\* is ("Surgical", 1, T) with T exactly the tag of the first rule of the table whose
\* pattern matches, weak or not, and nothing appended.
C5_FirstTagNoContext ==
    (/\ StringCall
     /\ ~has_medical_context
     /\ FirstMatchingRule(title) # 0)
    => result = <<"Surgical", 1, surgical_patterns[FirstMatchingRule(title)].tag>>

C5_Witness ==
    /\ StringCall
    /\ ~has_medical_context
    /\ Len(matches) >= 2
    /\ matches[1] \in weak_tags
    /\ result = <<"Surgical", 1, "Transplant (Generic)">>

\* C6: when no rule of the table matches, the result is ("Non-Surgical", 0, "No keywords"),
\* with or without negative context.
C6_NoKeywords ==
    (StringCall /\ matches = <<>>) => result = NoKeywords

C6_Witness ==
    /\ StringCall
    /\ has_medical_context
    /\ matches = <<>>
    /\ result = NoKeywords

\* C7: walking the rule table in another order leaves Classification and Score as they
\* are; only Reason may differ.
C7_OrderOnlyChangesReason ==
    pc = "reordered" =>
        /\ result_reordered[1] = result[1]
        /\ result_reordered[2] = result[2]

C7_Witness ==
    /\ pc = "reordered"
    /\ isinstance_str(title)
    /\ has_medical_context
    /\ result_reordered[1] = result[1]
    /\ result_reordered[3] # result[3]

\* C8: a title made of the standalone word "pouch", with no other rule keyword and no
\* negative context, is classified ("Surgical", 1, "Pouch").
C8_PouchRecognised ==
    (Returned /\ title \in {Str("pouch"), Str("pouch pouch"), Str("pouch-pouch")})
    => result = <<"Surgical", 1, "Pouch">>

(***************************************************************************)
(* The sidebar: "Check Availability" and "Fetch & Analyze" over            *)
(* st.session_state.  Each click reruns the script; the session state is   *)
(* what persists.                                                          *)
(***************************************************************************)
MaxJournals == 2
MaxCount == 3

JournalInputs == {"Annals of Surgery", "JAMA Surgery", "Gut"}

\* the OpenAlex source a journal name resolves to, when the search finds one
SourceOf(name) ==
    [name |-> name,
     id |-> CASE name = "Annals of Surgery" -> "S1"
              [] name = "JAMA Surgery" -> "S2"
              [] name = "Gut" -> "S3",
     input_name |-> name]

InputLists == UNION {[1..n -> JournalInputs] : n \in 0..MaxJournals}

\* search_journals: one source for every name of the list whose search answers 200 with
\* a result of type journal (the names in found); the other names add nothing
search_journals(input_list, found) ==
    LET hit == SelectSeq(input_list, LAMBDA x : x \in found)
    IN  [i \in 1..Len(hit) |-> SourceOf(hit[i])]

\* lines 257-268
CheckResolved(resolved, count) ==
    /\ IF resolved # <<>>
       THEN /\ journal_names' = [i \in 1..Len(resolved) |-> resolved[i].name]
            /\ source_ids' = [i \in 1..Len(resolved) |-> resolved[i].id]
            /\ total_count' = count
       ELSE /\ journal_names' = <<>>
            /\ total_count' = 0
            /\ UNCHANGED source_ids
    /\ run_btn' = NotClicked

CheckAvailability ==
    /\ \E input_list \in InputLists, found \in SUBSET JournalInputs, count \in 0..MaxCount :
          CheckResolved(search_journals(input_list, found), count)
    /\ UNCHANGED classifyVars
    /\ UNCHANGED fetchVars

\* line 285: the button is disabled while source_ids is empty
RunBtnEnabled == source_ids # <<>>

\* lines 285-298: the click fetches from source_ids and announces journal_names
FetchAndAnalyze ==
    /\ RunBtnEnabled
    /\ run_btn' = [clicked |-> TRUE, journal_names |-> journal_names, source_ids |-> source_ids]
    /\ UNCHANGED <<source_ids, journal_names, total_count>>
    /\ UNCHANGED classifyVars
    /\ UNCHANGED fetchVars

ClassifyIdle ==
    /\ title = Str("")
    /\ pc = "idle"
    /\ has_medical_context = None
    /\ matches = None
    /\ result = None
    /\ order = IdentityOrder
    /\ result_reordered = None

InitUI == ClassifyIdle /\ UiIdle /\ FetchIdle

NextUI == CheckAvailability \/ FetchAndAnalyze

SpecUI == InitUI /\ [][NextUI]_vars

\* C9: after any sequence of checks, source_ids and journal_names describe the same
\* resolution: they have the same length, source_ids is empty whenever journal_names
\* is, and a click on "Fetch & Analyze" fetches the sources of the journals it names.
C9_IdsMatchNames ==
    /\ Len(source_ids) = Len(journal_names)
    /\ journal_names = <<>> => ~RunBtnEnabled
    /\ Len(run_btn.source_ids) = Len(run_btn.journal_names)

(***************************************************************************)
(* fetch_papers_from_sources: the cursor pagination loop.                  *)
(***************************************************************************)
MaxLimit == 3
MaxPage == 2
MaxRequests == 5

Papers == {"W1", "W2"}

ResultPages == UNION {[1..n -> Papers] : n \in 0..MaxPage}

\* What one requests.get may bring: an exception, a status other than 200, a body that
\* is not JSON, or a JSON body with results and meta (meta absent, null, or an object
\* whose next_cursor is None, empty or a cursor).
Responses ==
    {[kind |-> "get_raises", results |-> <<>>, meta |-> "absent", next_cursor |-> None],
     [kind |-> "status_500", results |-> <<>>, meta |-> "absent", next_cursor |-> None],
     [kind |-> "json_raises", results |-> <<>>, meta |-> "absent", next_cursor |-> None]}
    \cup
    {[kind |-> "ok", results |-> r, meta |-> m, next_cursor |-> None] :
        r \in ResultPages, m \in {"absent", "null"}}
    \cup
    {[kind |-> "ok", results |-> r, meta |-> "object", next_cursor |-> c] :
        r \in ResultPages, c \in {None, "", "c1", "c2"}}

\* all_papers[:max_limit]
Take(seq, k) == SubSeq(seq, 1, IF Len(seq) < k THEN Len(seq) ELSE k)

IsPrefix(a, b) == Len(a) <= Len(b) /\ a = SubSeq(b, 1, Len(a))

FetchInit ==
    /\ max_limit \in 1..MaxLimit
    /\ all_papers = <<>>
    /\ cursor = "*"
    /\ fpc = "while"
    /\ requests_made = 0
    /\ pages = <<>>
    /\ returned = <<>>

\* Iterate, without the break on an empty page of results
Iterate_no_empty_break(resp) ==
    IF resp.kind # "ok"
    THEN /\ fpc' = "return"
         /\ UNCHANGED <<all_papers, pages, cursor>>
    ELSE /\ all_papers' = all_papers \o resp.results
         /\ pages' = pages \o resp.results
         /\ IF resp.meta = "null"
            THEN fpc' = "return" /\ UNCHANGED cursor
            ELSE IF resp.meta = "absent" \/ resp.next_cursor \in {None, ""}
            THEN fpc' = "return" /\ UNCHANGED cursor
            ELSE fpc' = "while" /\ cursor' = resp.next_cursor

\* lines 175-197: one iteration of the loop on the response resp
Iterate(resp) ==
    IF resp.kind # "ok"
    THEN \* requests.get or r.json() raised, or the status is not 200
         /\ fpc' = "return"
         /\ UNCHANGED <<all_papers, pages, cursor>>
    ELSE IF resp.results = <<>>
    THEN /\ fpc' = "return"
         /\ UNCHANGED <<all_papers, pages, cursor>>
    ELSE /\ all_papers' = all_papers \o resp.results
         /\ pages' = pages \o resp.results
         /\ IF resp.meta = "null"
            THEN \* data.get('meta', {}) is None: .get raises, the except ends the loop
                 fpc' = "return" /\ UNCHANGED cursor
            ELSE IF resp.meta = "absent" \/ resp.next_cursor \in {None, ""}
            THEN fpc' = "return" /\ UNCHANGED cursor
            ELSE fpc' = "while" /\ cursor' = resp.next_cursor

FetchIteration ==
    /\ fpc = "while"
    /\ Len(all_papers) < max_limit
    /\ requests_made < MaxRequests
    /\ requests_made' = requests_made + 1
    /\ \E resp \in Responses : Iterate(resp)
    /\ UNCHANGED <<max_limit, returned>>
    /\ UNCHANGED classifyVars
    /\ UNCHANGED uiVars

\* line 175: the loop condition fails
FetchLoopExit ==
    /\ fpc = "while"
    /\ ~(Len(all_papers) < max_limit)
    /\ fpc' = "return"
    /\ UNCHANGED <<max_limit, all_papers, cursor, requests_made, pages, returned>>
    /\ UNCHANGED classifyVars
    /\ UNCHANGED uiVars

\* lines 202-204
FetchReturn ==
    /\ fpc = "return"
    /\ returned' = Take(all_papers, max_limit)
    /\ fpc' = "done"
    /\ UNCHANGED <<max_limit, all_papers, cursor, requests_made, pages>>
    /\ UNCHANGED classifyVars
    /\ UNCHANGED uiVars

InitFetch == ClassifyIdle /\ UiIdle /\ FetchInit

NextFetch == FetchIteration \/ FetchLoopExit \/ FetchReturn

\* the call runs to its end: the loop is sequential and blocking
SpecFetch == InitFetch /\ [][NextFetch]_vars /\ WF_vars(NextFetch)

\* C10: the call terminates; an iteration that does not leave the loop appends at least
\* one paper, at most max_limit requests are made, and the returned list has at most
\* max_limit papers and is a prefix of the pages' results concatenated in fetch order.
C10_FetchTerminates ==
    /\ [](requests_made <= max_limit)
    /\ [](fpc = "done" => /\ Len(returned) <= max_limit
                          /\ IsPrefix(returned, pages))
    /\ [][(requests_made' = requests_made + 1 /\ fpc' = "while")
              => Len(all_papers') > Len(all_papers)]_vars
    /\ <>(fpc = "done")

C10_Witness ==
    /\ fpc = "done"
    /\ requests_made = max_limit
    /\ max_limit > 1
    /\ Len(all_papers) > max_limit
    /\ Len(returned) = max_limit

====
